---- MODULE Spec2Model ----
(***************************************************************************)
(* A state-machine model of the surface light field pipeline:              *)
(*   - DslfSurfaceDataset (load_dslf_surface.py): construction, the        *)
(*     per-identifier caches, calculate_x_y_z_theta_phi, __len__ and       *)
(*     __getitem__;                                                        *)
(*   - the checkpoint reload / basis construction / checkpoint save loop   *)
(*     of residual_regression.py.                                          *)
(* Floating point values are modelled by exact rationals [n, d].           *)
(***************************************************************************)
EXTENDS Integers, Sequences, FiniteSets, TLC

VARIABLES
    \* ---- constructor arguments and the files on disk
    list_ids, limit, dsize, listFile, extrFile, intrFile, onDisk,
    \* ---- position inside __init__
    pc, k, error,
    \* ---- loop-carried locals of the first loop of __init__
    image_file, extrinsic, intrinsic, probed,
    \* ---- fields of the dataset object
    H, W, H_scale, W_scale,
    list_images, list_poses, list_Ks, labels, depths, x_trains, masks,
    \* ---- calls observed: render_depth / calculate counts, last result
    renders, calcs, ret,
    \* ---- residual_regression.py: the command line, the log directories on
    \* disk, the position in the script and its module-level variables
    args, ckptDirs, ckpts, tpc, mi, global_step, model_params, state_dict,
    reloaded, epoch, total_steps, runs, sampled

dataVars == << list_ids, limit, dsize, listFile, extrFile, intrFile, onDisk,
               pc, k, error, image_file, extrinsic, intrinsic, probed,
               H, W, H_scale, W_scale,
               list_images, list_poses, list_Ks, labels, depths, x_trains,
               masks, renders, calcs, ret >>

trainVars == << args, ckptDirs, ckpts, tpc, mi, global_step, model_params,
                state_dict, reloaded, epoch, total_steps, runs, sampled >>

vars == << dataVars, trainVars >>

-----------------------------------------------------------------------------
(* Bounds *)

\* longest list_ids handed to the constructor
MaxIds == 2
\* largest value of the limit argument (None is always a choice)
MaxLimit == 2
\* most --model options on one command line
MaxModels == 2
\* largest --num_epochs
MaxEpochs == 2
\* how many times the training script is started
MaxRuns == 2

-----------------------------------------------------------------------------
(* Values *)

Unbound == "<unbound>"

Ids == {"a", "b"}

Abs(x) == IF x < 0 THEN -x ELSE x

RECURSIVE GCD(_, _)
GCD(a, b) == IF b = 0 THEN a ELSE GCD(b, a % b)

\* a float, kept exact: n / d in lowest terms with d > 0
Rat(n, d) ==
    LET s == IF d < 0 THEN -1 ELSE 1
        g == GCD(Abs(n), Abs(d))
    IN  [n |-> (s * n) \div g, d |-> (s * d) \div g]

RInt(i) == [n |-> i, d |-> 1]
RAdd(x, y) == Rat(x.n * y.d + y.n * x.d, x.d * y.d)
RSub(x, y) == Rat(x.n * y.d - y.n * x.d, x.d * y.d)
RMul(x, y) == Rat(x.n * y.n, x.d * y.d)
RDiv(x, y) == Rat(x.n * y.d, x.d * y.n)
RNeg(x) == [n |-> -x.n, d |-> x.d]

\* d[key] = val on a dict kept as a function
Put(d, key, val) ==
    [x \in (DOMAIN d) \cup {key} |-> IF x = key THEN val ELSE d[x]]

EmptyDict == << >>

-----------------------------------------------------------------------------
(* The files of the data directory *)

\* image list file: <id> <relative_image_path>
ImageOf == [a |-> "a.png", b |-> "b.png"]

\* native (height, width) of each image
ShapeOf == [i \in {"a.png", "b.png"} |->
              IF i = "a.png" THEN << 2, 2 >> ELSE << 1, 3 >>]

\* extrinsic file: <id> followed by the floats of the line
ExtrinsicTokens ==
    [a |-> << 1, 0, 0, 0,   0, 1, 0, 0,   0, 0, 1, 2,    0, 0, 0, 1 >>,
     b |-> << 0, -1, 0, 1,  1, 0, 0, 2,   0, 0, 1, 3,    0, 0, 0, 1,  9 >>]

\* intrinsic file: <id> followed by the floats of the line
IntrinsicTokens ==
    [a |-> << 2, 0, 1,  0, 2, 1,  0, 0, 1 >>,
     b |-> << 1, 1, 0,  0, 3, 1,  0, 0, 1 >>]

AllImages == {ImageOf[i] : i \in Ids}

\* What can be on disk: everything, or one line or one image missing.
Complete ==
    [listFile |-> Ids, extrFile |-> Ids, intrFile |-> Ids, onDisk |-> AllImages]

Scenarios ==
    {Complete}
    \cup {[listFile |-> Ids \ {i}, extrFile |-> Ids, intrFile |-> Ids,
           onDisk |-> AllImages] : i \in Ids}
    \cup {[listFile |-> Ids, extrFile |-> Ids \ {i}, intrFile |-> Ids,
           onDisk |-> AllImages] : i \in Ids}
    \cup {[listFile |-> Ids, extrFile |-> Ids, intrFile |-> Ids \ {i},
           onDisk |-> AllImages] : i \in Ids}
    \cup {[listFile |-> Ids, extrFile |-> Ids, intrFile |-> Ids,
           onDisk |-> AllImages \ {ImageOf[i]}] : i \in Ids}

IdLists == UNION {[1..n -> Ids] : n \in 1..MaxIds}

\* limit: None, or a positive number of pixels
NoLimit == [set |-> FALSE, v |-> 0]
Limits == {NoLimit} \cup {[set |-> TRUE, v |-> l] : l \in 1..MaxLimit}

\* dsize: None, or the target (H, W)
NoDsize == [set |-> FALSE, h |-> 0, w |-> 0]
Dsizes == {NoDsize, [set |-> TRUE, h |-> 1, w |-> 2]}

-----------------------------------------------------------------------------
(* Camera parsing: __init__, lines 85-114 *)

\* M[i] = float(tokens[i]) for the first rows*cols tokens; np.reshape, row-major
Reshape(tokens, rows, cols) ==
    [r \in 1..rows |-> [c \in 1..cols |-> tokens[(r - 1) * cols + c]]]

\* the flip applied to rows instead of columns: M[1] = -M[1]; M[2] = -M[2]
FlipRows(M) ==
    [r \in DOMAIN M |->
        [c \in DOMAIN M[r] |-> IF r \in {2, 3} THEN -M[r][c] ELSE M[r][c]]]

\* M[:, 1] = -M[:, 1]; M[:, 2] = -M[:, 2]   (columns 2 and 3 here, 1-based)
FlipAxes(M) ==
    [r \in DOMAIN M |->
        [c \in DOMAIN M[r] |-> IF c \in {2, 3} THEN -M[r][c] ELSE M[r][c]]]

ParsePose(tokens) == FlipAxes(Reshape(tokens, 4, 4))

\* (H_scale, W_scale) of the probe: (1., 1.) without dsize, else target/native
ProbeScale(ds, shape) ==
    IF ~ds.set
    THEN [h |-> RInt(1), w |-> RInt(1)]
    ELSE [h |-> Rat(ds.h, shape[1]), w |-> Rat(ds.w, shape[2])]

\* (H, W) of the probe: the native shape without dsize, else dsize
ProbeSize(ds, shape) ==
    IF ~ds.set THEN [h |-> shape[1], w |-> shape[2]] ELSE [h |-> ds.h, w |-> ds.w]

\* M[0] *= W_scale; M[1] *= H_scale
ScaleIntrinsic(M, wscale, hscale) ==
    [r \in 1..3 |->
        [c \in 1..3 |->
            IF r = 1 THEN RMul(RInt(M[r][c]), wscale)
            ELSE IF r = 2 THEN RMul(RInt(M[r][c]), hscale)
            ELSE RInt(M[r][c])]]

ParseIntrinsic(tokens, wscale, hscale) ==
    ScaleIntrinsic(Reshape(tokens, 3, 3), wscale, hscale)

-----------------------------------------------------------------------------
(* Linear algebra on 3x3 matrices of exact floats *)

Others(i) == IF i = 1 THEN << 2, 3 >> ELSE IF i = 2 THEN << 1, 3 >> ELSE << 1, 2 >>

Cofactor(K, r, c) ==
    LET a == Others(r)
        b == Others(c)
        m == RSub(RMul(K[a[1]][b[1]], K[a[2]][b[2]]),
                  RMul(K[a[1]][b[2]], K[a[2]][b[1]]))
    IN  IF (r + c) % 2 = 0 THEN m ELSE RNeg(m)

Det3(K) ==
    RAdd(RAdd(RMul(K[1][1], Cofactor(K, 1, 1)), RMul(K[1][2], Cofactor(K, 1, 2))),
         RMul(K[1][3], Cofactor(K, 1, 3)))

\* np.linalg.inv(K), defined when Det3(K) is not zero
Inv3(K) ==
    LET det == Det3(K)
    IN  [r \in 1..3 |-> [c \in 1..3 |-> RDiv(Cofactor(K, c, r), det)]]

MatMul3(A, B) ==
    [r \in 1..3 |->
        [c \in 1..3 |->
            RAdd(RAdd(RMul(A[r][1], B[1][c]), RMul(A[r][2], B[2][c])),
                 RMul(A[r][3], B[3][c]))]]

\* c2w[:3, :3]
Rotation(c2w) == [r \in 1..3 |-> [c \in 1..3 |-> RInt(c2w[r][c])]]

\* the origin read from the last row instead of the last column: c2w[3, :3]
CameraOriginRow(c2w) == [j \in 1..3 |-> RInt(c2w[4][j])]

\* c2w[:3, 3]
CameraOrigin(c2w) == [j \in 1..3 |-> RInt(c2w[j][4])]

-----------------------------------------------------------------------------
(* calculate_x_y_z_theta_phi, lines 140-180 *)

\* the grid of np.meshgrid(..., indexing='ij'): row i is (i div H, i mod H)
MeshgridIJ(w, h) == [i \in 0..(w * h - 1) |-> << i \div h, i % h >>]

\* np.stack(np.meshgrid(ucoords, vcoords), -1).reshape(-1, 2): row i is (u, v)
Meshgrid(w, h) == [i \in 0..(w * h - 1) |-> << i % w, i \div w >>]

\* np.concatenate([..., depth], axis=1): row i is (u, v, depth[i])
Uvd(w, h, depth) ==
    [i \in 0..(w * h - 1) |->
        << Meshgrid(w, h)[i][1], Meshgrid(w, h)[i][2], depth[i] >>]

\* the validity test written as a sign test: mask = uvd[:, 2] >= 0.
ValidMaskNonNegative(uvd) == [i \in DOMAIN uvd |-> uvd[i][3] >= 0]

\* mask = uvd[:, 2] != 0.
ValidMask(uvd) == [i \in DOMAIN uvd |-> uvd[i][3] # 0]

\* np.sum(mask)
CountTrue(mask) == Cardinality({i \in DOMAIN mask : mask[i]})

\* self.limit is not None and base > self.limit
Triggered(lim, base) == lim.set /\ base > lim.v

\* L = int(np.log(limit/base) // np.log(1 - 1/(W*H))): the largest l with
\* ((n-1)/n)^l >= limit/base
RECURSIVE DrawsFrom(_, _, _, _)
DrawsFrom(l, lim, base, n) ==
    IF (n - 1) ^ (l + 1) * base >= lim * n ^ (l + 1)
    THEN DrawsFrom(l + 1, lim, base, n)
    ELSE l

Draws(lim, base, n) == DrawsFrom(0, lim, base, n)

\* the index sets np.random.randint(0, W*H, (L,)) can return: L draws with
\* replacement hit between 1 and L distinct indices (none when L = 0)
DrawOutcomes(L, n) ==
    {D \in SUBSET (0..(n - 1)) : Cardinality(D) <= L /\ (L > 0 => D # {})}

\* the drawn indices assigned as the mask: mask = ~drawn
SubsampleAssign(mask, D) == [i \in DOMAIN mask |-> i \notin D]

\* mask[drawn] = False
Subsample(mask, D) == [i \in DOMAIN mask |-> mask[i] /\ i \notin D]

\* the indices a boolean mask selects, in increasing order
Select(mask) ==
    LET S == {i \in DOMAIN mask : mask[i]}
    IN  [j \in 1..Cardinality(S) |->
            CHOOSE i \in S : Cardinality({x \in S : x < i}) = j - 1]

\* a[mask] for a buffer a indexed by pixel
Masked(a, mask) ==
    LET sel == Select(mask)
    IN  [j \in 1..Len(sel) |-> a[sel[j]]]

\* np.matmul(c2w[:3, :3], np.linalg.inv(K))
Unprojection(c2w, K) == MatMul3(Rotation(c2w), Inv3(K))

\* lines 164-171 for one retained row (u, v, d), A the unprojection and t
\* the camera origin: the position, and the direction dirs / sqrt(norm2)
\* (nan when norm2 is zero)
Feature(row, A, t) ==
    LET p == << RInt(row[1] * row[3]), RInt(row[2] * row[3]), RInt(row[3]) >>
        x == [j \in 1..3 |->
                RAdd(RAdd(RAdd(RMul(p[1], A[j][1]), RMul(p[2], A[j][2])),
                          RMul(p[3], A[j][3])), t[j])]
        dirs == [j \in 1..3 |-> RSub(x[j], t[j])]
        n2 == RAdd(RAdd(RMul(dirs[1], dirs[1]), RMul(dirs[2], dirs[2])),
                   RMul(dirs[3], dirs[3]))
    IN  [pos |-> x, dir |-> dirs, norm2 |-> n2]

\* x_train = np.hstack([x_train, dirs]) over uvd[mask]
XTrain(uvd, mask, c2w, K) ==
    LET sel == Select(mask)
        A == Unprojection(c2w, K)
        t == CameraOrigin(c2w)
    IN  [j \in 1..Len(sel) |-> Feature(uvd[sel[j]], A, t)]

-----------------------------------------------------------------------------
(* __init__ *)

UnboundLine == [type |-> "unbound", of |-> "-"]
NoCall == [op |-> "none", index |-> 0, n |-> 0, x |-> << >>, y |-> << >>, m |-> << >>]

\* The constructor calls explored: any list of identifiers over any state of
\* the disk without a limit, and one-identifier lists over a complete disk
\* with any limit.
Calls ==
    {[ids |-> l, lim |-> NoLimit, disk |-> s] : l \in IdLists, s \in Scenarios}
    \cup {[ids |-> << i >>, lim |-> l, disk |-> Complete] : i \in Ids, l \in Limits}

DataInit ==
    /\ \E c \in Calls :
          /\ list_ids = c.ids
          /\ limit = c.lim
          /\ listFile = c.disk.listFile
          /\ extrFile = c.disk.extrFile
          /\ intrFile = c.disk.intrFile
          /\ onDisk = c.disk.onDisk
    /\ dsize \in Dsizes
    /\ pc = "load"
    /\ k = 1
    /\ error = ""
    /\ image_file = Unbound
    /\ extrinsic = UnboundLine
    /\ intrinsic = UnboundLine
    /\ probed = FALSE
    /\ H = 0
    /\ W = 0
    /\ H_scale = RInt(0)
    /\ W_scale = RInt(0)
    /\ list_images = EmptyDict
    /\ list_poses = EmptyDict
    /\ list_Ks = EmptyDict
    /\ labels = EmptyDict
    /\ depths = EmptyDict
    /\ x_trains = EmptyDict
    /\ masks = EmptyDict
    /\ renders = 0
    /\ calcs = 0
    /\ ret = NoCall

\* the exception one iteration of the first loop raises, "" when it completes
LoadFailure(img, ext, int) ==
    CASE img = Unbound -> "UnboundLocalError: image_file"
      [] img \notin onDisk -> "Exception: image is not found"
      [] ext.type = "unbound" -> "UnboundLocalError: extrinsic"
      [] ext.type = "list" -> "AttributeError: extrinsic.split"
      [] int.type = "unbound" -> "UnboundLocalError: intrinsic"
      [] int.type = "list" -> "AttributeError: intrinsic.split"
      [] OTHER -> ""

\* what a file search leaves in the loop variable: the matching line, or the
\* value of the previous iteration when no line matches
Lookup(file, id, previous) ==
    IF id \in file THEN [type |-> "str", of |-> id] ELSE previous

LookupImage(file, id, previous) ==
    IF id \in file THEN ImageOf[id] ELSE previous

\* one iteration of "for id in list_ids", lines 55-114
LoadCamera ==
    /\ pc = "load"
    /\ LET id == list_ids[k]
           img == LookupImage(listFile, id, image_file)
           ext == Lookup(extrFile, id, extrinsic)
           int == Lookup(intrFile, id, intrinsic)
           fail == LoadFailure(img, ext, int)
           hasImage == fail # "UnboundLocalError: image_file"
           hasPose == hasImage /\ img \in onDisk /\ ext.type = "str"
           probing == hasPose /\ ~probed
           size == ProbeSize(dsize, ShapeOf[img])
           scale == ProbeScale(dsize, ShapeOf[img])
       IN  /\ image_file' = img
           /\ extrinsic' = IF hasPose THEN [ext EXCEPT !.type = "list"] ELSE ext
           /\ intrinsic' = IF fail = "" THEN [int EXCEPT !.type = "list"] ELSE int
           /\ list_images' = IF hasImage THEN Put(list_images, id, img)
                             ELSE list_images
           /\ list_poses' = IF hasPose
                            THEN Put(list_poses, id, ParsePose(ExtrinsicTokens[ext.of]))
                            ELSE list_poses
           /\ probed' = (probed \/ hasPose)
           /\ H' = IF probing THEN size.h ELSE H
           /\ W' = IF probing THEN size.w ELSE W
           /\ H_scale' = IF probing THEN scale.h ELSE H_scale
           /\ W_scale' = IF probing THEN scale.w ELSE W_scale
           /\ list_Ks' = IF fail = ""
                         THEN Put(list_Ks, id,
                                  ParseIntrinsic(IntrinsicTokens[int.of],
                                                 W_scale', H_scale'))
                         ELSE list_Ks
           /\ error' = fail
           /\ pc' = IF fail # "" THEN "aborted"
                    ELSE IF k = Len(list_ids) THEN "labels" ELSE "load"
           /\ k' = IF fail # "" THEN k ELSE IF k = Len(list_ids) THEN 1 ELSE k + 1
    /\ UNCHANGED trainVars
    /\ UNCHANGED << list_ids, limit, dsize, listFile, extrFile, intrFile, onDisk,
                    labels, depths, x_trains, masks, renders, calcs, ret >>

\* imageio.imread + cv2.resize to (W, H) when the shape differs: pixel (v, u)
Image(file, h, w) ==
    [v \in 0..(h - 1) |->
        [u \in 0..(w - 1) |->
            [img |-> file, v |-> v, u |-> u, resized |-> ShapeOf[file] # << h, w >>]]]

\* I.reshape((-1, 3))
Flatten(I, h, w) == [i \in 0..(h * w - 1) |-> I[i \div w][i % w]]

\* one iteration of the label loop, lines 118-124
LoadLabel ==
    /\ pc = "labels"
    /\ LET id == list_ids[k]
       IN  labels' = Put(labels, id, Flatten(Image(list_images[id], H, W), H, W))
    /\ pc' = IF k = Len(list_ids) THEN "depths" ELSE "labels"
    /\ k' = IF k = Len(list_ids) THEN 1 ELSE k + 1
    /\ UNCHANGED trainVars
    /\ UNCHANGED << list_ids, limit, dsize, listFile, extrFile, intrFile, onDisk,
                    error, image_file, extrinsic, intrinsic, probed,
                    H, W, H_scale, W_scale, list_images, list_poses, list_Ks,
                    depths, x_trains, masks, renders, calcs, ret >>

\* the buffers render_depth can write for a camera at c2w: the geometry is
\* any part of the plane z = 0 seen along the optical axis, so a covered
\* pixel holds the distance of the camera from the plane and the background 0
DepthBuffers(n, c2w) ==
    {[i \in 0..(n - 1) |-> IF i \in fg THEN Abs(c2w[3][4]) ELSE 0] :
        fg \in SUBSET (0..(n - 1))}

\* one iteration of the depth loop, lines 128-133
RenderDepth ==
    /\ pc = "depths"
    /\ \E depth \in DepthBuffers(H * W, list_poses[list_ids[k]]) :
          depths' = Put(depths, list_ids[k], depth)
    /\ renders' = renders + 1
    /\ pc' = IF k = Len(list_ids) THEN "xyz" ELSE "depths"
    /\ k' = IF k = Len(list_ids) THEN 1 ELSE k + 1
    /\ UNCHANGED trainVars
    /\ UNCHANGED << list_ids, limit, dsize, listFile, extrFile, intrFile, onDisk,
                    error, image_file, extrinsic, intrinsic, probed,
                    H, W, H_scale, W_scale, list_images, list_poses, list_Ks,
                    labels, x_trains, masks, calcs, ret >>

\* the mask calculate_x_y_z_theta_phi returns when the draws hit D
FinalMask(uvd, lim, D) ==
    IF Triggered(lim, CountTrue(ValidMask(uvd)))
    THEN Subsample(ValidMask(uvd), D)
    ELSE ValidMask(uvd)

\* the draws the call makes
CallDraws(uvd, lim) ==
    IF Triggered(lim, CountTrue(ValidMask(uvd)))
    THEN DrawOutcomes(Draws(lim.v, CountTrue(ValidMask(uvd)), Cardinality(DOMAIN uvd)),
                      Cardinality(DOMAIN uvd))
    ELSE {{}}

\* one iteration of the last loop, lines 137-138, with the call it makes
Calculate ==
    /\ pc = "xyz"
    /\ LET id == list_ids[k]
           uvd == Uvd(W, H, depths[id])
       IN  \E D \in CallDraws(uvd, limit) :
              LET mask == FinalMask(uvd, limit, D)
              IN  IF Det3(list_Ks[id]).n = 0
                  THEN /\ error' = "LinAlgError: Singular matrix"
                       /\ pc' = "aborted"
                       /\ UNCHANGED << k, x_trains, masks >>
                  ELSE /\ x_trains' = Put(x_trains, id,
                                          XTrain(uvd, mask, list_poses[id], list_Ks[id]))
                       /\ masks' = Put(masks, id, mask)
                       /\ pc' = IF k = Len(list_ids) THEN "ready" ELSE "xyz"
                       /\ k' = IF k = Len(list_ids) THEN 1 ELSE k + 1
                       /\ error' = error
    /\ calcs' = calcs + 1
    /\ UNCHANGED trainVars
    /\ UNCHANGED << list_ids, limit, dsize, listFile, extrFile, intrFile, onDisk,
                    image_file, extrinsic, intrinsic, probed,
                    H, W, H_scale, W_scale, list_images, list_poses, list_Ks,
                    labels, depths, renders, ret >>

-----------------------------------------------------------------------------
(* __len__ and __getitem__, lines 182-189 *)

LenCall ==
    /\ pc = "ready"
    /\ ret' = [NoCall EXCEPT !.op = "len", !.n = Len(list_ids)]
    /\ UNCHANGED trainVars
    /\ UNCHANGED << list_ids, limit, dsize, listFile, extrFile, intrFile, onDisk,
                    pc, k, error, image_file, extrinsic, intrinsic, probed,
                    H, W, H_scale, W_scale, list_images, list_poses, list_Ks,
                    labels, depths, x_trains, masks, renders, calcs >>

\* a lazy __getitem__: the sample is calculated again on every access
GetItemRecalculate ==
    /\ pc = "ready"
    /\ \E index \in 0..(Len(list_ids) - 1) :
          LET id == list_ids[index + 1]
              uvd == Uvd(W, H, depths[id])
          IN  \E D \in CallDraws(uvd, limit) :
                 LET mask == FinalMask(uvd, limit, D)
                 IN  /\ x_trains' = Put(x_trains, id,
                                        XTrain(uvd, mask, list_poses[id], list_Ks[id]))
                     /\ masks' = Put(masks, id, mask)
                     /\ ret' = [op |-> "getitem", index |-> index, n |-> 0,
                                x |-> x_trains'[id], y |-> Masked(labels[id], mask),
                                m |-> mask]
    /\ UNCHANGED trainVars
    /\ UNCHANGED << list_ids, limit, dsize, listFile, extrFile, intrFile, onDisk,
                    pc, k, error, image_file, extrinsic, intrinsic, probed,
                    H, W, H_scale, W_scale, list_images, list_poses, list_Ks,
                    labels, depths, renders, calcs >>

\* index is 0-based, as in the source
GetItem ==
    /\ pc = "ready"
    /\ \E index \in 0..(Len(list_ids) - 1) :
          LET id == list_ids[index + 1]
              mask == masks[id]
          IN  ret' = [op |-> "getitem", index |-> index, n |-> 0,
                      x |-> x_trains[id], y |-> Masked(labels[id], mask),
                      m |-> masks[id]]
    /\ UNCHANGED trainVars
    /\ UNCHANGED << list_ids, limit, dsize, listFile, extrFile, intrFile, onDisk,
                    pc, k, error, image_file, extrinsic, intrinsic, probed,
                    H, W, H_scale, W_scale, list_images, list_poses, list_Ks,
                    labels, depths, x_trains, masks, renders, calcs >>

-----------------------------------------------------------------------------
(* residual_regression.py: the loop over args.model, lines 85-179 *)

\* --model: "siren" stands for any string that is none of the three options
ModelLists ==
    (UNION {[1..n -> {"relu", "ffm", "gffm"}] : n \in 1..MaxModels})
    \cup {<< "siren" >>}

ArgSets ==
    [model : ModelLists, restart : BOOLEAN, test_only : BOOLEAN,
     num_epochs : 1..MaxEpochs, epochs_til_ckpt : {1, 2},
     ffm_map_size : {2, 3}, gffm_map_size : {2, 3}]

NoArgs ==
    [model |-> << "relu" >>, restart |-> FALSE, test_only |-> FALSE,
     num_epochs |-> 1, epochs_til_ckpt |-> 1, ffm_map_size |-> 2,
     gffm_map_size |-> 2]

\* the value of model_params: None, the ffm matrix B, or the gffm pair (W, b)
NoParams == [kind |-> "none", rows |-> 0, cols |-> 0, draw |-> 0]

\* torch.normal(0, 1, size=(args.ffm_map_size, 6)) * args.ffm_map_scale
SampleFfm(a, n) == [kind |-> "matrix", rows |-> a.ffm_map_size, cols |-> 6, draw |-> n]

\* slf_sample(..., N=args.gffm_map_size) with np.random.uniform(..., (1, N))
SampleGffm(a, n) == [kind |-> "pair", rows |-> a.gffm_map_size, cols |-> 6, draw |-> n]

\* (W, b) = model_params on a matrix of two rows: its rows
UnpackRows(B) == [kind |-> "pair", rows |-> B.cols, cols |-> 1, draw |-> B.draw]

\* whether "(W, b) = model_params" unpacks
Unpacks(params) ==
    \/ params.kind = "pair"
    \/ params.kind = "matrix" /\ params.rows = 2

NoState == [of |-> "none", params |-> NoParams]

\* a checkpoint file name: model_epoch_{epoch:04}.pt or model_final.pt
EpochFile(e) == [kind |-> "epoch", epoch |-> e]
FinalFile == [kind |-> "final", epoch |-> 0]

\* the order of sorted(os.listdir(...)): "model_epoch_NNNN.pt" < "model_final.pt"
SortsBefore(f, g) ==
    \/ f.kind = "epoch" /\ g.kind = "final"
    \/ f.kind = g.kind /\ f.epoch <= g.epoch

\* ckpts[-1]
Latest(files) == CHOOSE f \in files : \A g \in files : SortsBefore(g, f)

\* os.path.join(args.logdir, f'{args.expname}-map_size-{args.ffm_map_size:d}')
Logdir(a) == a.ffm_map_size

TrainOff ==
    /\ args = NoArgs
    /\ ckptDirs = {}
    /\ ckpts = [d \in {2, 3} |-> << >>]
    /\ tpc = "idle"
    /\ mi = 1
    /\ global_step = 0
    /\ model_params = NoParams
    /\ state_dict = NoState
    /\ reloaded = FALSE
    /\ epoch = 0
    /\ total_steps = 0
    /\ runs = 0
    /\ sampled = 0

\* the script is started: p.parse_args(), lines 20-60
StartRun ==
    /\ tpc \in {"idle", "aborted"}
    /\ runs < MaxRuns
    /\ args' \in ArgSets
    /\ runs' = runs + 1
    /\ tpc' = "reload"
    /\ mi' = 1
    /\ global_step' = 0
    /\ model_params' = NoParams
    /\ state_dict' = NoState
    /\ reloaded' = FALSE
    /\ epoch' = 0
    /\ total_steps' = 0
    /\ UNCHANGED << ckptDirs, ckpts, sampled >>
    /\ UNCHANGED dataVars

\* lines 86-102: the latest checkpoint of the log directory, unless --restart
Reload ==
    /\ tpc = "reload"
    /\ LET dir == Logdir(args)
           files == DOMAIN ckpts[dir]
           found == dir \in ckptDirs /\ files # {} /\ ~args.restart
           ckpt == ckpts[dir][Latest(files)]
       IN  /\ global_step' = IF found THEN ckpt.global_step ELSE 0
           /\ model_params' = IF found THEN ckpt.params ELSE NoParams
           /\ state_dict' = IF found THEN ckpt.model ELSE NoState
           /\ reloaded' = found
    /\ tpc' = "build"
    /\ UNCHANGED << args, ckptDirs, ckpts, mi, epoch, total_steps, runs, sampled >>
    /\ UNCHANGED dataVars

\* what lines 107-132 leave in model_params, for model type mt
BuildParams(mt, params, a, n) ==
    CASE mt = "relu" -> params
      [] mt = "ffm" -> IF params = NoParams THEN SampleFfm(a, n) ELSE params
      [] mt = "gffm" -> IF params = NoParams THEN SampleGffm(a, n)
                        ELSE IF params.kind = "matrix" THEN UnpackRows(params)
                        ELSE params
      [] OTHER -> params

\* the exception lines 107-132 raise, "" when they complete
BuildFailure(mt, params) ==
    CASE mt \in {"relu", "ffm"} -> ""
      [] mt = "gffm" -> IF params = NoParams \/ Unpacks(params) THEN ""
                        ELSE "ValueError: too many values to unpack"
      [] OTHER -> "NotImplementedError"

\* whether the network built for mt from params takes the reloaded state:
\* it does when the state was saved by the same model type over the same basis
StateFits(mt, params, state) == state.of = mt /\ state.params = params

\* lines 104-155: the network for args.model[mi]; without training, tested
\* only, the iteration ends here
Build ==
    /\ tpc = "build"
    /\ LET mt == args.model[mi]
           fail == BuildFailure(mt, model_params)
           fresh == mt \in {"ffm", "gffm"} /\ model_params = NoParams
           params == BuildParams(mt, model_params, args, sampled + 1)
           last == mi = Len(args.model)
       IN  \E loads \in BOOLEAN :
              \* load_state_dict on a state of another network either raises
              \* or loads what matches
              /\ loads \/ (state_dict # NoState /\ ~StateFits(mt, params, state_dict))
              /\ IF fail # "" \/ ~loads
                 THEN /\ tpc' = "aborted"
                      /\ model_params' = IF fail # "" THEN model_params ELSE params
                      /\ sampled' = IF fail = "" /\ fresh THEN sampled + 1 ELSE sampled
                      /\ UNCHANGED << ckptDirs, mi, epoch, total_steps >>
                 ELSE /\ model_params' = params
                      /\ sampled' = IF fresh THEN sampled + 1 ELSE sampled
                      /\ ckptDirs' = ckptDirs \cup {Logdir(args)}
                      /\ epoch' = 0
                      /\ total_steps' = IF args.test_only THEN total_steps
                                        ELSE global_step
                      /\ tpc' = IF ~args.test_only THEN "train"
                                ELSE IF last THEN "idle" ELSE "reload"
                      /\ mi' = IF args.test_only /\ ~last THEN mi + 1 ELSE mi
    /\ UNCHANGED << args, ckpts, global_step, state_dict, reloaded, runs >>
    /\ UNCHANGED dataVars

\* torch.save({'model': ..., 'params': model_params, 'global_step': ...}, file)
Save(disk, a, file, mt, params, steps) ==
    [disk EXCEPT ![Logdir(a)] =
        [f \in (DOMAIN @) \cup {file} |->
            IF f = file
            THEN [model |-> [of |-> mt, params |-> params], params |-> params,
                  global_step |-> steps]
            ELSE @[f]]]

\* one pass of "for epoch in pbar", lines 160-174
Epoch ==
    /\ tpc = "train"
    /\ epoch < args.num_epochs
    /\ total_steps' = total_steps + 1
    /\ ckpts' = IF epoch % args.epochs_til_ckpt = 0 /\ epoch # 0
                THEN Save(ckpts, args, EpochFile(epoch), args.model[mi],
                          model_params, total_steps')
                ELSE ckpts
    /\ epoch' = epoch + 1
    /\ UNCHANGED << args, ckptDirs, tpc, mi, global_step, model_params, state_dict,
                    reloaded, runs, sampled >>
    /\ UNCHANGED dataVars

\* lines 176-179, and the next model type
FinalSave ==
    /\ tpc = "train"
    /\ epoch = args.num_epochs
    /\ ckpts' = Save(ckpts, args, FinalFile, args.model[mi], model_params,
                     total_steps)
    /\ tpc' = IF mi = Len(args.model) THEN "idle" ELSE "reload"
    /\ mi' = IF mi = Len(args.model) THEN mi ELSE mi + 1
    /\ UNCHANGED << args, ckptDirs, global_step, model_params, state_dict,
                    reloaded, epoch, total_steps, runs, sampled >>
    /\ UNCHANGED dataVars

-----------------------------------------------------------------------------
(* Specifications *)

DataOff ==
    /\ list_ids = << "a" >>
    /\ limit = NoLimit
    /\ dsize = NoDsize
    /\ listFile = Complete.listFile
    /\ extrFile = Complete.extrFile
    /\ intrFile = Complete.intrFile
    /\ onDisk = Complete.onDisk
    /\ pc = "off"
    /\ k = 1
    /\ error = ""
    /\ image_file = Unbound
    /\ extrinsic = UnboundLine
    /\ intrinsic = UnboundLine
    /\ probed = FALSE
    /\ H = 0
    /\ W = 0
    /\ H_scale = RInt(0)
    /\ W_scale = RInt(0)
    /\ list_images = EmptyDict
    /\ list_poses = EmptyDict
    /\ list_Ks = EmptyDict
    /\ labels = EmptyDict
    /\ depths = EmptyDict
    /\ x_trains = EmptyDict
    /\ masks = EmptyDict
    /\ renders = 0
    /\ calcs = 0
    /\ ret = NoCall

\* the dataset: construction, then any calls of __len__ and __getitem__
Init == DataInit /\ TrainOff

Next ==
    \/ LoadCamera
    \/ LoadLabel
    \/ RenderDepth
    \/ Calculate
    \/ LenCall
    \/ GetItem

Spec == Init /\ [][Next]_vars

\* the training script, started MaxRuns times over the same log directories
TrainInit == DataOff /\ TrainOff

TrainNext ==
    \/ StartRun
    \/ Reload
    \/ Build
    \/ Epoch
    \/ FinalSave

SpecTrain == TrainInit /\ [][TrainNext]_vars

-----------------------------------------------------------------------------
(* Properties of the dataset *)

\* the identifier __getitem__ last served
Served == list_ids[ret.index + 1]

\* the j-th true pixel of a mask, in row-major order
KthTrue(mask, j) ==
    CHOOSE i \in DOMAIN mask :
        mask[i] /\ Cardinality({x \in DOMAIN mask : x < i /\ mask[x]}) = j - 1

\* the feature row of every pixel i of identifier id: u = i mod W, v = i div W
RowsOfPixels(id) ==
    LET A == Unprojection(list_poses[id], list_Ks[id])
        t == CameraOrigin(list_poses[id])
    IN  [i \in DOMAIN depths[id] |->
            Feature(<< i % W, i \div W, depths[id][i] >>, A, t)]

\* the colour of pixel i of identifier id: u = i mod W, v = i div W
ColourOfPixel(id, i) ==
    [img |-> list_images[id], v |-> i \div W, u |-> i % W,
     resized |-> ShapeOf[list_images[id]] # << H, W >>]

NonZero(id) == {i \in DOMAIN depths[id] : depths[id][i] # 0}

\* C1: a pixel whose rendered depth is 0 is false in the mask of
\* calculate_x_y_z_theta_phi and of __getitem__, and gives no row of the
\* features and no row of the masked labels, with or without a limit and
\* whatever the draws
C1_ZeroDepthExcluded ==
    \A id \in DOMAIN masks :
        LET rows == RowsOfPixels(id)
        IN  \A i \in DOMAIN depths[id] :
                depths[id][i] = 0 =>
                    /\ ~masks[id][i]
                    /\ \A j \in DOMAIN x_trains[id] : x_trains[id][j] # rows[i]
                    /\ (ret.op = "getitem" /\ Served = id) =>
                          /\ ~ret.m[i]
                          /\ \A j \in DOMAIN ret.x : ret.x[j] # rows[i]
                          /\ \A j \in DOMAIN ret.y : ret.y[j] # ColourOfPixel(id, i)

\* a sample served under a limit that triggered, with background pixels and
\* retained pixels
C1_Witness ==
    /\ ret.op = "getitem"
    /\ limit.set
    /\ Cardinality(NonZero(Served)) > limit.v
    /\ \E i \in DOMAIN depths[Served] : depths[Served][i] = 0
    /\ Len(ret.x) > 0

\* C2: the triple of __getitem__ is aligned: as many feature rows as label
\* rows as true entries of the mask, the j-th of each derived from the j-th
\* true pixel i of the mask in row-major order, u = i mod W and v = i div W
C2_TripleAligned ==
    ret.op = "getitem" =>
        LET rows == RowsOfPixels(Served)
        IN  /\ Len(ret.x) = CountTrue(ret.m)
            /\ Len(ret.y) = CountTrue(ret.m)
            /\ \A j \in 1..CountTrue(ret.m) :
                  /\ ret.x[j] = rows[KthTrue(ret.m, j)]
                  /\ ret.y[j] = ColourOfPixel(Served, KthTrue(ret.m, j))

\* a served sample of a 2x2 image whose first pixel is not retained and whose
\* retained pixels lie on both rows
C2_Witness ==
    /\ ret.op = "getitem"
    /\ H = 2
    /\ W = 2
    /\ ~ret.m[0]
    /\ ret.m[1]
    /\ ret.m[2]
    /\ Len(ret.x) >= 2

\* C3: with a limit, no more than limit pixels are retained per image,
\* whatever the draws
C3_AtMostLimit ==
    \A id \in DOMAIN masks : limit.set => CountTrue(masks[id]) <= limit.v

\* the positions of list_ids the first loop has completed
Loaded == {j \in 1..Len(list_ids) : pc \in {"labels", "depths", "xyz", "ready"}
                                      \/ (pc = "load" /\ j < k)}

\* C4: construction is fail-fast: an identifier without a line in the image
\* list, the extrinsic or the intrinsic file is never loaded, first or later,
\* and no identifier holds the image path of another
C4_FailFast ==
    /\ \A j \in Loaded :
          /\ list_ids[j] \in listFile
          /\ list_ids[j] \in extrFile
          /\ list_ids[j] \in intrFile
    /\ \A id \in DOMAIN list_images : list_images[id] = ImageOf[id]

Caches == << labels, depths, x_trains, masks, list_images, list_poses, list_Ks >>

\* C5: when __init__ returns every identifier has its labels, depth, sample
\* and mask, rendered and calculated once per entry of list_ids; __len__
\* returns len(list_ids); __getitem__ returns the cached triple, renders
\* nothing, draws nothing and changes no cached entry
C5_EagerAndCached ==
    [][ pc' = "ready" =>
          /\ \A j \in 1..Len(list_ids) :
                list_ids[j] \in (DOMAIN labels' \cap DOMAIN depths'
                                 \cap DOMAIN x_trains' \cap DOMAIN masks')
          /\ renders' = Len(list_ids)
          /\ calcs' = Len(list_ids)
          /\ pc = "ready" => Caches' = Caches
          /\ ret'.op = "len" => ret'.n = Len(list_ids)
          /\ ret'.op = "getitem" =>
                LET id == list_ids[ret'.index + 1]
                IN  /\ ret'.x = x_trains[id]
                    /\ ret'.m = masks[id]
                    /\ Len(ret'.y) = CountTrue(masks[id])
                    /\ \A j \in 1..Len(ret'.y) :
                          ret'.y[j] = labels[id][KthTrue(masks[id], j)]
      ]_vars

\* a sample served from a cached mask the draws of __init__ thinned
C5_Witness ==
    /\ ret.op = "getitem"
    /\ limit.set
    /\ CountTrue(ret.m) < Cardinality(NonZero(Served))
    /\ CountTrue(ret.m) > 0

\* the intrinsic the claim expects for id: the parsed matrix with row 0 times
\* W_target / W_native and row 1 times H_target / H_native, native the shape
\* of the image of id; unchanged without dsize
IntrinsicByOwnShape(id) ==
    LET M == Reshape(IntrinsicTokens[id], 3, 3)
        native == ShapeOf[ImageOf[id]]
    IN  [r \in 1..3 |->
            [c \in 1..3 |->
                IF ~dsize.set \/ r = 3 THEN RInt(M[r][c])
                ELSE IF r = 1 THEN Rat(M[r][c] * dsize.w, native[2])
                ELSE Rat(M[r][c] * dsize.h, native[1])]]

\* C6: every stored intrinsic is the parsed matrix rescaled by the target
\* size over the native size of that identifier's own image
C6_ScaledByOwnShape ==
    (listFile = Ids /\ extrFile = Ids /\ intrFile = Ids) =>
        \A id \in DOMAIN list_Ks : list_Ks[id] = IntrinsicByOwnShape(id)

\* C7: every stored pose is the row-major 4x4 of the first 16 floats of the
\* line with columns 1 and 2 negated in all rows and columns 0 and 3 kept;
\* the flip applied again gives the parsed matrix back
C7_PoseFlipped ==
    \A id \in DOMAIN list_poses :
        /\ \A r \in 1..4 : \A c \in 1..4 :
              list_poses[id][r][c] =
                  IF c \in {2, 3} THEN -ExtrinsicTokens[id][4 * (r - 1) + c]
                  ELSE ExtrinsicTokens[id][4 * (r - 1) + c]
        /\ FlipAxes(list_poses[id]) = Reshape(ExtrinsicTokens[id], 4, 4)

\* the pose of b is stored: its line has 17 floats, a rotation that is not
\* the identity and a translation
C7_Witness == "b" \in DOMAIN list_poses

Dot(a, b) == RAdd(RAdd(RMul(a[1], b[1]), RMul(a[2], b[2])), RMul(a[3], b[3]))

\* C8: for every retained pixel the direction is the offset of the position
\* from the camera origin (the translation column of the pose) divided by
\* its own norm, which is not zero: a unit vector
C8_UnitDirections ==
    \A id \in DOMAIN x_trains :
        \A j \in DOMAIN x_trains[id] :
            LET row == x_trains[id][j]
                offset == [c \in 1..3 |->
                              RSub(row.pos[c], RInt(list_poses[id][c][4]))]
            IN  /\ row.dir = offset
                /\ row.norm2 = Dot(offset, offset)
                /\ row.norm2.n > 0

\* a sample of at least two rows under a pose whose translation is not zero
C8_Witness ==
    \E id \in DOMAIN x_trains :
        /\ Len(x_trains[id]) >= 2
        /\ list_poses[id][3][4] # 0

\* C9: without a limit, or with no more than limit pixels of depth not 0,
\* the mask is exactly depth != 0; otherwise L >= 0 indices are drawn and
\* the mask is a subset of depth != 0 with at least base - L and at most
\* base true entries
C9_SubsamplingOnlyRemoves ==
    \A id \in DOMAIN masks :
        LET base == Cardinality(NonZero(id))
            L == Draws(limit.v, base, H * W)
            kept == CountTrue(masks[id])
        IN  IF ~limit.set \/ base <= limit.v
            THEN masks[id] = [i \in DOMAIN depths[id] |-> depths[id][i] # 0]
            ELSE /\ L >= 0
                 /\ \A i \in DOMAIN masks[id] : masks[id][i] => depths[id][i] # 0
                 /\ base - L <= kept
                 /\ kept <= base

\* the draws thinned a mask by fewer pixels than were drawn, over an image
\* with background
C9_Witness ==
    \E id \in DOMAIN masks :
        /\ limit.set
        /\ Cardinality(NonZero(id)) > limit.v
        /\ CountTrue(masks[id]) < Cardinality(NonZero(id))
        /\ CountTrue(masks[id]) >
               Cardinality(NonZero(id)) - Draws(limit.v, Cardinality(NonZero(id)), H * W)
        /\ Cardinality(NonZero(id)) < H * W

-----------------------------------------------------------------------------
(* Properties of the training script *)

\* the shape of a basis freshly constructed for model type mt
FreshShape(mt, a) ==
    IF mt = "ffm" THEN [kind |-> "matrix", rows |-> a.ffm_map_size, cols |-> 6]
    ELSE [kind |-> "pair", rows |-> a.gffm_map_size, cols |-> 6]

ShapeOfParams(params) == [kind |-> params.kind, rows |-> params.rows, cols |-> params.cols]

\* C10: whenever a checkpoint is reloaded, the basis it holds (when it holds
\* one) has the structure of one freshly constructed for the current model
\* type and arguments: an ffm_map_size x 6 matrix for ffm, a pair (W, b) of
\* gffm_map_size features for gffm
C10_ReloadedBasisFits ==
    (tpc = "build" /\ reloaded /\ model_params # NoParams
        /\ args.model[mi] \in {"ffm", "gffm"}) =>
        ShapeOfParams(model_params) = FreshShape(args.model[mi], args)

====
